---- MODULE Spec2Model ----
(***************************************************************************)
(* Balkan cross-border electricity flows: the per-pair series files        *)
(* (data/flow_<from>_<to>.json), the two ingestion programs that write     *)
(* them (src/import_csv.py, src/fetch_data.py) and the dashboard views of  *)
(* src/app.py that read them (Country Total, Missing Data Analysis).       *)
(*                                                                         *)
(* Timestamps are instants counted in hours (an integer); a calendar day   *)
(* d of the reference timezone starts at hour 24 * d (daylight-saving      *)
(* shifts are not modelled).  to_json(date_format='iso') followed by       *)
(* read_json moves a timestamp to UTC but keeps its instant, so a stored   *)
(* timestamp is its instant, and a DatetimeIndex read from a file is       *)
(* timezone-aware.                                                         *)
(***************************************************************************)
EXTENDS Integers, Sequences, FiniteSets, TLC

VARIABLES files, lastRun, view, report, pool

vars == <<files, lastRun, view, report, pool>>

(***************************************************************************)
(* Bounds of the model.                                                    *)
(***************************************************************************)
MaxTs == 2
MaxFlow == 2
MaxBatch == 2
NumPeriods == 2

Timestamps == 1..MaxTs
Flows == 1..MaxFlow

(***************************************************************************)
(* countries.json: the static directed adjacency list.  A lists B and C,   *)
(* B lists only C, C lists only B: A -> B is an edge whose reverse is not. *)
(***************************************************************************)
countries == <<"A", "B", "C">>

Codes == {countries[i] : i \in 1..Len(countries)}

neighbors(c) ==
  CASE c = "A" -> <<"B", "C">>
    [] c = "B" -> <<"C">>
    [] c = "C" -> <<"B">>

Range(s) == {s[i] : i \in 1..Len(s)}

Edges == {<<c, n>> : c \in Codes, n \in Codes} \cap
         {p \in Codes \X Codes : p[2] \in Range(neighbors(p[1]))}

\* The pairs a file is kept for: every edge, and the non-edge B -> A, which
\* only a CSV import can create.
StoredPairs == Edges \cup {<<"B", "A">>}

(***************************************************************************)
(* A series file.  kind "absent": no file; "corrupt": read_json raises     *)
(* ValueError; "notimestamp": records without a timestamp field;           *)
(* "records": a list of {timestamp, flow} records, in file order.          *)
(***************************************************************************)
Record(t, f) == [timestamp |-> t, flow |-> f]

Absent == [kind |-> "absent", recs |-> <<>>]
Corrupt == [kind |-> "corrupt", recs |-> <<>>]
NoTimestamp == [kind |-> "notimestamp", recs |-> <<>>]
RecordsFile(recs) == [kind |-> "records", recs |-> recs]

TsOf(recs) == {recs[i].timestamp : i \in 1..Len(recs)}

IsSorted(recs) ==
  \A i \in 1..Len(recs) : \A j \in 1..Len(recs) :
    i < j => recs[i].timestamp <= recs[j].timestamp

IsUnique(recs) ==
  \A i \in 1..Len(recs) : \A j \in 1..Len(recs) :
    i # j => recs[i].timestamp # recs[j].timestamp

(***************************************************************************)
(* pandas operations on a frame held as a sequence of records.             *)
(***************************************************************************)
\* The ways to put row r into the ascending frame s and keep it ascending.
Inserts(s, r) ==
  {SubSeq(s, 1, k) \o <<r>> \o SubSeq(s, k + 1, Len(s)) :
     k \in {k \in 0..Len(s) :
              /\ k = 0 \/ s[k].timestamp <= r.timestamp
              /\ k = Len(s) \/ r.timestamp <= s[k + 1].timestamp}}

\* DataFrame.sort_values('timestamp') with the default kind='quicksort', which
\* is not stable: the rows in ascending timestamp order, rows of equal
\* timestamp in any order.
RECURSIVE sort_values(_)
sort_values(recs) ==
  IF recs = <<>> THEN {<<>>}
  ELSE UNION {Inserts(s, recs[Len(recs)]) : s \in sort_values(SubSeq(recs, 1, Len(recs) - 1))}

SelectIdx(recs, keepIdx) ==
  LET F[i \in 0..Len(recs)] ==
        IF i = 0 THEN <<>>
        ELSE IF i \in keepIdx THEN Append(F[i - 1], recs[i]) ELSE F[i - 1]
  IN F[Len(recs)]

\* drop_duplicates(subset=['timestamp'], keep='last'): of the rows with one
\* timestamp, the last one in frame order stays.
drop_duplicates_last(recs) ==
  SelectIdx(recs, {i \in 1..Len(recs) :
                     \A j \in 1..Len(recs) : j > i => recs[j].timestamp # recs[i].timestamp})

\* drop_duplicates(subset=['timestamp']) with the default keep='first'.
drop_duplicates_first(recs) ==
  SelectIdx(recs, {i \in 1..Len(recs) :
                     \A j \in 1..Len(recs) : j < i => recs[j].timestamp # recs[i].timestamp})

\* pd.concat of a list of frames, in list order.
concat(frames) ==
  LET F[i \in 0..Len(frames)] == IF i = 0 THEN <<>> ELSE F[i - 1] \o frames[i]
  IN F[Len(frames)]

(***************************************************************************)
(* import_csv                                                              *)
(***************************************************************************)
\* parse_mtu's None / NaT, and to_numeric's NaN: no value of the model's data.
NaT == -1
NaN == -1

\* The pairs the imported CSV files speak of.
CsvPairs == {<<"A", "B">>, <<"B", "A">>}

\* A CSV row after parse_mtu, extract_country_code and to_numeric: the
\* timestamp is NaT when the MTU does not parse, the flow NaN when the
\* Physical Flow cell is not a number.
CsvRows ==
  [pair : CsvPairs, timestamp : Timestamps, flow : Flows] \cup
  {[pair |-> <<"A", "B">>, timestamp |-> NaT, flow |-> 1],
   [pair |-> <<"A", "B">>, timestamp |-> 1, flow |-> NaN]}

SeqsUpTo(S, n) == UNION {[1..k -> S] : k \in 0..n}

CsvBatches == SeqsUpTo(CsvRows, MaxBatch)

\* df.dropna(subset=['timestamp']) and df.dropna(subset=['flow']).
dropna(rows) ==
  SelectIdx(rows, {i \in 1..Len(rows) : rows[i].timestamp # NaT /\ rows[i].flow # NaN})

\* One group of df.groupby(['from_code', 'to_code']), as [['timestamp', 'flow']].
Group(rows, p) ==
  LET g == SelectIdx(rows, {i \in 1..Len(rows) : rows[i].pair = p})
  IN [i \in 1..Len(g) |-> Record(g[i].timestamp, g[i].flow)]

GroupedPairs(rows) == {rows[i].pair : i \in 1..Len(rows)}

\* Whether import_csv reads the existing file as a non-empty frame with a
\* timestamp column, and so concatenates it with the new rows.
Merges(existing) == existing.kind = "records" /\ existing.recs # <<>>

\* combined_df with the existing rows forgotten (a plain overwrite).
combined_df_overwrite(existing, new_data) == new_data

\* The frame written for one pair: new_data alone unless the existing file
\* reads as a non-empty frame with a timestamp column.
combined_df(existing, new_data) ==
  IF Merges(existing)
  THEN CHOOSE s \in sort_values(drop_duplicates_last(existing.recs \o new_data)) : TRUE
  ELSE new_data

\* lastRun: the last ingestion run, the pairs whose file it wrote, and those
\* of them whose existing file it read and merged with the new rows.
NoRun == [op |-> "none", written |-> {}, merged |-> {}]

NoReport == [window |-> <<0, 0>>, rows |-> <<>>]

\* No fetch_data worker pool exists.
NoPool == [phase |-> "none"]


\* The orders sort_values may leave each group's new_data in.
NewDataChoices(rows) ==
  {nd \in [GroupedPairs(rows) -> UNION {sort_values(Group(rows, p)) : p \in GroupedPairs(rows)}] :
     \A p \in GroupedPairs(rows) : nd[p] \in sort_values(Group(rows, p))}

\* import_csv(csv_path) on a readable CSV with the required columns: every
\* pair of the CSV gets its file rewritten; no other file is touched.
import_csv(batch) ==
  /\ \E nd \in NewDataChoices(dropna(batch)) :
       files' = [p \in StoredPairs |->
                   IF p \in DOMAIN nd
                   THEN RecordsFile(combined_df(files[p], nd[p]))
                   ELSE files[p]]
  /\ lastRun' = [op |-> "import_csv", written |-> GroupedPairs(dropna(batch)),
                  merged |-> {p \in GroupedPairs(dropna(batch)) : Merges(files[p])}]
  /\ UNCHANGED <<view, report, pool>>

\* import_csv on a missing or unreadable CSV, or one without the required
\* columns: the early returns.
import_csv_rejected ==
  /\ lastRun' = [op |-> "import_csv_rejected", written |-> {}, merged |-> {}]
  /\ lastRun' # lastRun
  /\ UNCHANGED <<files, view, report, pool>>

(***************************************************************************)
(* fetch_data                                                              *)
(***************************************************************************)
\* The edges the provider has data for.
DataEdges == {<<"A", "B">>}

FlowRecords == {Record(t, f) : t \in Timestamps, f \in Flows}

\* What fetch_flow_for_month returns for one (pair, period): a frame, or
\* None (the empty sequence) on an empty answer or an exception.  The
\* provider's answer is a series, ascending and unique by timestamp.
Chunks == {s \in SeqsUpTo(FlowRecords, MaxTs) : IsSorted(s) /\ IsUnique(s)}

Fetched == [DataEdges -> [1..NumPeriods -> Chunks]]

\* data_store[(code_from, code_to)]: the frames of the pair's tasks that
\* returned one, in period order (one task per pair in each period).
data_store(fetched, p) ==
  IF p \in DOMAIN fetched
  THEN SelectIdx(fetched[p], {i \in 1..Len(fetched[p]) : fetched[p][i] # <<>>})
  ELSE <<>>

\* full_df of one pair: concat, sort_values, drop_duplicates (keep first).
full_df(df_list) == {drop_duplicates_first(s) : s \in sort_values(concat(df_list))}

FullDfChoices(fetched) ==
  LET written == {p \in Edges : data_store(fetched, p) # <<>>}
  IN {fd \in [written -> UNION {full_df(data_store(fetched, p)) : p \in written}] :
        \A p \in written : fd[p] \in full_df(data_store(fetched, p))}

\* fetch_data() with an API key: every edge with at least one fetched frame
\* gets its file overwritten with the consolidated frames.
fetch_data(fetched) ==
  /\ \E fd \in FullDfChoices(fetched) :
       files' = [p \in StoredPairs |->
                   IF p \in DOMAIN fd THEN RecordsFile(fd[p]) ELSE files[p]]
  /\ lastRun' = [op |-> "fetch_data",
                  written |-> {p \in Edges : data_store(fetched, p) # <<>>},
                  merged |-> {}]
  /\ UNCHANGED <<view, report, pool>>

\* fetch_data() without an API key: the early return.
fetch_data_no_key ==
  /\ lastRun' = [op |-> "fetch_data_no_key", written |-> {}, merged |-> {}]
  /\ lastRun' # lastRun
  /\ UNCHANGED <<files, view, report, pool>>

(***************************************************************************)
(* app.py, shared functions and the Country Total view.  A pandas Series   *)
(* is a function from its index (timestamps) to values; the empty Series   *)
(* has the empty index.                                                    *)
(***************************************************************************)
HoursPerDay == 24

\* index.date: the calendar day of a timestamp.
Date(t) == t \div HoursPerDay

EmptySeries == [t \in {} |-> 0]

FileOf(code_from, code_to) ==
  IF <<code_from, code_to>> \in StoredPairs THEN files[<<code_from, code_to>>] ELSE Absent

\* df['flow'] of a frame indexed by its timestamp column.
FlowColumn(recs) ==
  [t \in TsOf(recs) |-> recs[CHOOSE i \in 1..Len(recs) : recs[i].timestamp = t].flow]

\* get_flow_data: the frame of a file that exists, parses, is not empty and
\* has a timestamp column; None (found = FALSE) otherwise.
get_flow_data(code_from, code_to) ==
  LET f == FileOf(code_from, code_to)
  IN IF f.kind = "records" /\ f.recs # <<>>
     THEN [found |-> TRUE, flow |-> FlowColumn(f.recs)]
     ELSE [found |-> FALSE, flow |-> EmptySeries]

\* Series.add with the index of only the timestamps both series have.
add_inner(a, b) ==
  [t \in DOMAIN a \cap DOMAIN b |-> a[t] + b[t]]

\* Series.add(other, fill_value=0): the index is the union of both, and a
\* value missing on one side counts as 0.
add(a, b) ==
  [t \in DOMAIN a \cup DOMAIN b |->
     (IF t \in DOMAIN a THEN a[t] ELSE 0) + (IF t \in DOMAIN b THEN b[t] ELSE 0)]

\* One pass of an accumulation loop over the frames of a list of pairs.
RECURSIVE Accumulate(_, _)
Accumulate(acc, pairs) ==
  IF pairs = <<>> THEN acc
  ELSE LET df == get_flow_data(Head(pairs)[1], Head(pairs)[2])
           next == IF ~df.found THEN acc
                   ELSE IF DOMAIN acc = {} THEN df.flow
                   ELSE add(acc, df.flow)
       IN Accumulate(next, Tail(pairs))

\* The pairs the EXPORTS loop loads, in loop order: target -> neighbor.
ExportPairs(target) ==
  [i \in 1..Len(neighbors(target)) |-> <<target, neighbors(target)[i]>>]

\* The IMPORTS loop with the target's own neighbor list read backwards
\* (neighbor -> target for each neighbor the target lists).
ImportPairsOwnNeighbors(target) ==
  [i \in 1..Len(neighbors(target)) |-> <<neighbors(target)[i], target>>]

\* The pairs the IMPORTS loop loads, in loop order: c -> target for every
\* country c that lists the target as a neighbor.
ImportPairs(target) ==
  LET lists == SelectIdx(countries, {i \in 1..Len(countries) :
                                       target \in Range(neighbors(countries[i]))})
  IN [i \in 1..Len(lists) |-> <<lists[i], target>>]

exports(target) == Accumulate(EmptySeries, ExportPairs(target))
imports(target) == Accumulate(EmptySeries, ImportPairs(target))

\* "Align dates" with the warning raised as soon as one side is empty.
HasTableBothSides(imp, exp) == DOMAIN imp # {} /\ DOMAIN exp # {}

\* "Align dates": a table is built unless both sides are empty.
HasTable(imp, exp) == DOMAIN imp # {} \/ DOMAIN exp # {}

\* pd.DataFrame({'Imports': ..., 'Exports': ...}): the index is the union of
\* the indexes of the Series given, a Series has NaN where it has no value,
\* and a scalar 0 fills its whole column.
DataFrame(imp, exp) ==
  [t \in DOMAIN imp \cup DOMAIN exp |->
     [Imports |-> IF DOMAIN imp = {} THEN 0 ELSE IF t \in DOMAIN imp THEN imp[t] ELSE NaN,
      Exports |-> IF DOMAIN exp = {} THEN 0 ELSE IF t \in DOMAIN exp THEN exp[t] ELSE NaN]]

\* fillna left out.
fillna_skipped(table) == table

\* combined.fillna(0, inplace=True)
fillna(table) ==
  [t \in DOMAIN table |->
     [Imports |-> IF table[t].Imports = NaN THEN 0 ELSE table[t].Imports,
      Exports |-> IF table[t].Exports = NaN THEN 0 ELSE table[t].Exports]]

\* combined['Net Flow'] = combined['Exports'] - combined['Imports']
WithNetFlow(table) ==
  [t \in DOMAIN table |->
     [Imports |-> table[t].Imports, Exports |-> table[t].Exports,
      NetFlow |-> table[t].Exports - table[t].Imports]]

\* The sum of f[x] over x in S.
RECURSIVE SumOver(_, _)
SumOver(S, f) ==
  IF S = {} THEN 0
  ELSE LET x == CHOOSE x \in S : TRUE IN f[x] + SumOver(S \ {x}, f)

\* The three metrics over the rows whose date lies in the chosen range.
Metrics(table, start_date, end_date) ==
  LET rows == {t \in DOMAIN table : Date(t) >= start_date /\ Date(t) <= end_date}
  IN [computed |-> TRUE,
      tot_imp |-> SumOver(rows, [t \in rows |-> table[t].Imports]),
      tot_exp |-> SumOver(rows, [t \in rows |-> table[t].Exports]),
      net |-> SumOver(rows, [t \in rows |-> table[t].NetFlow])]

NoMetrics == [computed |-> FALSE, tot_imp |-> 0, tot_exp |-> 0, net |-> 0]

EmptyTable == [t \in {} |-> 0]

NoView == [target |-> "none", warning |-> FALSE, combined |-> EmptyTable,
           metrics |-> NoMetrics]

\* The Country Total view for one selected country and date range.
CountryTotal(target, start_date, end_date) ==
  LET imp == imports(target)
      exp == exports(target)
  IN /\ view' =
          IF HasTable(imp, exp)
          THEN LET combined == WithNetFlow(fillna(DataFrame(imp, exp)))
               IN [target |-> target, warning |-> FALSE, combined |-> combined,
                   metrics |-> Metrics(combined, start_date, end_date)]
          ELSE [target |-> target, warning |-> TRUE, combined |-> EmptyTable,
                metrics |-> NoMetrics]
     /\ view' # view
     /\ UNCHANGED <<files, lastRun, report, pool>>

(***************************************************************************)
(* The Country Total specification: a data directory of series files       *)
(* (ascending, one record per timestamp) and missing files, the file of    *)
(* A -> B also unreadable or empty, viewed for any country and date range. *)
(*  The flow of a pair's      *)
(* records is the pair's own power of two, so that a sum of flows tells    *)
(* which series went into it.                                              *)
(***************************************************************************)
PairFlow(p) ==
  CASE p = <<"A", "B">> -> 1
    [] p = <<"A", "C">> -> 2
    [] p = <<"B", "C">> -> 4
    [] p = <<"C", "B">> -> 8
    [] p = <<"B", "A">> -> 16

\* The series of pair p over the timestamps T, as the records of its file.
RECURSIVE SeriesRecs(_, _)
SeriesRecs(p, T) ==
  IF T = {} THEN <<>>
  ELSE LET m == CHOOSE m \in T : \A t \in T : t <= m
       IN Append(SeriesRecs(p, T \ {m}), Record(m, PairFlow(p)))

Unloadable == {Absent, Corrupt, NoTimestamp, RecordsFile(<<>>)}

Dates == {0, 1}

InitBalance ==
  /\ \E T \in [StoredPairs -> SUBSET Timestamps] : \E bad \in Unloadable :
       /\ T[<<"A", "B">>] # {} => bad = Absent
       /\ files = [p \in StoredPairs |->
                     IF T[p] # {} THEN RecordsFile(SeriesRecs(p, T[p]))
                     ELSE IF p = <<"A", "B">> THEN bad ELSE Absent]
  /\ lastRun = NoRun
  /\ view = NoView
  /\ report = NoReport
  /\ pool = NoPool

NextBalance ==
  \E target \in Codes : \E start_date \in Dates : \E end_date \in Dates :
    start_date <= end_date /\ CountryTotal(target, start_date, end_date)

SpecBalance == InitBalance /\ [][NextBalance]_vars

(***************************************************************************)
(* app.py, the Missing Data Analysis view.  A date is a day number; the    *)
(* instant pd.Timestamp(date).tz_localize('Europe/Brussels') is the hour   *)
(* HoursPerDay * date.  A DatetimeIndex is [tz, values]: tz "naive" for    *)
(* pd.date_range over dates, "UTC" for the index read from a file.         *)
(***************************************************************************)
\* Europe/Brussels (CET) is one hour ahead of UTC.
UtcOffset == 1

CompleteAbove == 99
ListUpTo == 10

Localize(date) == HoursPerDay * date

\* pd.date_range(start=start_check, end=end_check, freq='D'): every date from
\* start to end, both included, timezone-naive.
date_range(start_check, end_check) ==
  [tz |-> "naive", values |-> start_check..end_check]

\* df_range.index.normalize().unique(): the midnights (in the index's own
\* timezone, UTC) of the rows, as UTC day numbers.
normalize_unique(tss) ==
  [tz |-> "UTC", values |-> {(t - UtcOffset) \div HoursPerDay : t \in tss}]

\* Index.difference: an index of another timezone-awareness cannot be
\* compared, nothing matches, and the difference is all of the first index.
difference(a, b) ==
  IF a.tz # b.tz THEN a.values ELSE a.values \ b.values

\* The completeness left as computed, without the cap.
Uncapped(num, den) == [num |-> num, den |-> den]

\* The threshold read as "at least 99%".
IsCompleteAtLeast(num, den) == num >= CompleteAbove * den

\* completeness > 99, for completeness = min(100.0, num / den), den > 0.  The
\* float quotient (actual_count / expected) * 100 exceeds 99 exactly when the
\* fraction does: at count * 100 = 99 * expected it is 99.0.
IsComplete(num, den) == num > CompleteAbove * den

\* min(100.0, completeness), kept as a fraction.
Capped(num, den) ==
  IF num > 100 * den THEN [num |-> 100, den |-> 1] ELSE [num |-> num, den |-> den]

Min(S) == CHOOSE x \in S : \A y \in S : x <= y

\* The missing_days text of a Partial pair.
MissingInfo(missing) ==
  IF missing # {}
  THEN IF Cardinality(missing) > ListUpTo
       THEN [kind |-> "count", days |-> {}, count |-> Cardinality(missing),
             example |-> Min(missing)]
       ELSE [kind |-> "list", days |-> missing, count |-> 0, example |-> 0]
  ELSE [kind |-> "Partial hours missing", days |-> {}, count |-> 0, example |-> 0]

Info(kind) == [kind |-> kind, days |-> {}, count |-> 0, example |-> 0]

\* f"{completeness:.1f}%": the percentage in tenths, rounded to the nearest
\* tenth.  Halfway between two tenths the exact quotient is rounded to the
\* even one; there the float decides in Python, and for the counts and
\* windows of this model it decides the same.
Format1(completeness) ==
  LET q == (10 * completeness.num) \div completeness.den
      r == (10 * completeness.num) % completeness.den
  IN IF 2 * r < completeness.den THEN q
     ELSE IF 2 * r > completeness.den THEN q + 1
     ELSE IF q % 2 = 0 THEN q ELSE q + 1

Entry(p, status, completeness, missing) ==
  [From |-> p[1], To |-> p[2], Status |-> status,
   Completeness |-> Format1(completeness), Missing |-> missing]

Zero == [num |-> 0, den |-> 1]

\* The body of the loop for one pair: the report entry it appends.
AuditPair(p, start_check, end_check) ==
  LET f == FileOf(p[1], p[2])
      in_range == {i \in 1..Len(f.recs) :
                     /\ f.recs[i].timestamp >= Localize(start_check)
                     /\ f.recs[i].timestamp <= Localize(end_check)}
      actual_count == Cardinality(in_range)
      expected == (end_check - start_check) * HoursPerDay
      missing == difference(date_range(start_check, end_check),
                            normalize_unique({f.recs[i].timestamp : i \in in_range}))
  IN IF f.kind = "absent" THEN Entry(p, "Missing File", Zero, Info("All"))
     ELSE IF f.kind = "corrupt" THEN Entry(p, "Error Reading", Zero, Info("All"))
     ELSE IF f.kind = "notimestamp" \/ f.recs = <<>>
          THEN Entry(p, "Missing File", Zero, Info("All"))
     ELSE IF actual_count = 0 THEN Entry(p, "No Data in Range", Zero, Info("All"))
     \* actual_count / 0 raises ZeroDivisionError, caught by "except Exception".
     ELSE IF expected = 0 THEN Entry(p, "Error Reading", Zero, Info("All"))
     ELSE IF IsComplete(actual_count * 100, expected)
          THEN Entry(p, "Complete", Capped(actual_count * 100, expected), Info("None"))
     ELSE Entry(p, "Partial", Capped(actual_count * 100, expected), MissingInfo(missing))

\* The pairs of the report, in loop order: every neighbor of every country.
RECURSIVE AuditedPairs(_)
AuditedPairs(cs) ==
  IF cs = <<>> THEN <<>>
  ELSE [i \in 1..Len(neighbors(Head(cs))) |-> <<Head(cs), neighbors(Head(cs))[i]>>]
       \o AuditedPairs(Tail(cs))

\* The Missing Data Analysis view for one window.
MissingDataAnalysis(start_check, end_check) ==
  /\ report' = [window |-> <<start_check, end_check>>,
                rows |-> [i \in 1..Len(AuditedPairs(countries)) |->
                            AuditPair(AuditedPairs(countries)[i], start_check, end_check)]]
  /\ report' # report
  /\ UNCHANGED <<files, lastRun, view, pool>>

(***************************************************************************)
(* The audit specification: the file of A -> B holds one of a family of    *)
(* series spanning the days 0..MaxDay (or is missing, unreadable or        *)
(* empty), the other files are missing, and any window is audited.  The    *)
(* series has PerDay observations in each day, at the day's first hours,   *)
(* but for a gap of GapLen hours from hour GapStart on.                    *)
(***************************************************************************)
MaxDay == 26
MaxStart == 1

GapStart == 27
GapLens == {0, 6, 7, 72, 288}
PerDays == {12, HoursPerDay}

AuditSeries(perDay, gapLen) ==
  LET Hour(i) == HoursPerDay * ((i - 1) \div perDay) + ((i - 1) % perDay)
      InGap(h) == h >= GapStart /\ h < GapStart + gapLen
      all == 1..(perDay * (MaxDay + 1))
      before == Cardinality({i \in all : Hour(i) < GapStart})
      gone == Cardinality({i \in all : InGap(Hour(i))})
  IN [i \in 1..(perDay * (MaxDay + 1) - gone) |->
        Record(IF i <= before THEN Hour(i) ELSE Hour(i + gone), 1)]

AuditFiles ==
  Unloadable \cup {RecordsFile(AuditSeries(k, g)) : k \in PerDays, g \in GapLens}

InitAudit ==
  /\ \E f \in AuditFiles :
       files = [p \in StoredPairs |-> IF p = <<"A", "B">> THEN f ELSE Absent]
  /\ lastRun = NoRun
  /\ view = NoView
  /\ report = NoReport
  /\ pool = NoPool

NextAudit ==
  \E start_check \in 0..MaxStart : \E end_check \in 0..MaxDay :
    MissingDataAnalysis(start_check, end_check)

SpecAudit == InitAudit /\ [][NextAudit]_vars

\* The same audit over two stored series, A -> B and A -> C, each any of the
\* audit files: one window is applied to both.
InitCompare ==
  /\ \E f \in AuditFiles : \E g \in AuditFiles :
       files = [p \in StoredPairs |->
                  IF p = <<"A", "B">> THEN f
                  ELSE IF p = <<"A", "C">> THEN g ELSE Absent]
  /\ lastRun = NoRun
  /\ view = NoView
  /\ report = NoReport
  /\ pool = NoPool

\* One rendering of the view: the files do not change, so a second window
\* over the same files is covered by another behaviour.
NextCompare ==
  /\ report = NoReport
  /\ \E start_check \in 0..MaxStart : \E end_check \in 0..MaxDay :
       MissingDataAnalysis(start_check, end_check)

SpecCompare == InitCompare /\ [][NextCompare]_vars

(***************************************************************************)
(* The ingestion specification: the data directory starts with no file,    *)
(* or with files left unreadable or empty by something else, and is        *)
(* written by any sequence of import_csv and fetch_data runs.              *)
(***************************************************************************)
InitialFiles == {Absent, Corrupt, NoTimestamp, RecordsFile(<<>>)}

Init ==
  /\ files \in [StoredPairs -> InitialFiles]
  /\ \A p \in StoredPairs \ CsvPairs : files[p] = Absent
  /\ lastRun = NoRun
  /\ view = NoView
  /\ report = NoReport
  /\ pool = NoPool

Next ==
  \/ \E batch \in CsvBatches : import_csv(batch)
  \/ import_csv_rejected
  \/ \E fetched \in Fetched : fetch_data(fetched)
  \/ fetch_data_no_key

Spec == Init /\ [][Next]_vars

(***************************************************************************)
(* fetch_data task by task: in each period one fetch_flow_for_month task   *)
(* per edge runs in the worker pool, the main thread collects the futures  *)
(* as they complete, and the files are saved after the last period.        *)
(***************************************************************************)
Periods == 1..NumPeriods

\* What the provider does with one query: it raises, answers nothing, or
\* answers a non-empty series.
Raised == [kind |-> "raised", df |-> <<>>]
Empty == [kind |-> "empty", df |-> <<>>]
Answer(df) == [kind |-> "frame", df |-> df]

PoolFrames ==
  {<<Record(1, 1)>>, <<Record(1, 2)>>, <<Record(2, 2)>>, <<Record(1, 1), Record(2, 1)>>}

Outcomes(e) ==
  IF e = <<"A", "B">> THEN {Raised, Empty} \cup {Answer(df) : df \in PoolFrames}
  ELSE IF e = <<"C", "B">> THEN {Raised, Answer(<<Record(2, 1)>>)}
  ELSE IF e = <<"B", "C">> THEN {Raised}
  ELSE {Empty}

\* fetch_flow_for_month: (code_from, code_to, df), with df None (the empty
\* sequence) when the query raised or answered nothing.
fetch_flow_for_month(code_from, code_to, outcome) ==
  <<code_from, code_to, IF outcome.kind = "frame" THEN outcome.df ELSE <<>> >>

Unsubmitted == [state |-> "unsubmitted", outcome |-> Empty]

\* data_store[(c_from, c_to)].append(df), as a dict that shares one list
\* among its keys would do it.
append_shared(store, key, df) == [p \in DOMAIN store |-> Append(store[p], df)]

\* data_store[(c_from, c_to)].append(df)
append(store, key, df) == [store EXCEPT ![key] = Append(@, df)]

\* The futures of period k are all collected: the as_completed loop is over.
Collected(k) == \A e \in Edges : pool.futures[k][e].state = "collected"

\* The with block of the next period: every edge's task is submitted.
Submit ==
  /\ pool.phase = "pool"
  /\ pool.period < NumPeriods
  /\ pool.period > 0 => Collected(pool.period)
  /\ pool' = [pool EXCEPT
       !.period = @ + 1,
       !.futures[pool.period + 1] = [e \in Edges |-> [state |-> "running", outcome |-> Empty]]]
  /\ UNCHANGED <<files, lastRun, view, report>>

\* A worker finishes the task of edge e.
TaskReturns(e, outcome) ==
  /\ pool.phase = "pool"
  /\ pool.period > 0
  /\ pool.futures[pool.period][e].state = "running"
  /\ pool' = [pool EXCEPT
       !.futures[pool.period][e] = [state |-> "done", outcome |-> outcome]]
  /\ UNCHANGED <<files, lastRun, view, report>>

\* as_completed yields a finished future and the main thread stores its
\* frame.
Collect(e) ==
  /\ pool.phase = "pool"
  /\ pool.period > 0
  /\ pool.futures[pool.period][e].state = "done"
  /\ LET result == fetch_flow_for_month(e[1], e[2], pool.futures[pool.period][e].outcome)
     IN pool' = [pool EXCEPT
          !.futures[pool.period][e].state = "collected",
          !.data_store = IF result[3] # <<>>
                         THEN append(@, <<result[1], result[2]>>, result[3])
                         ELSE @]
  /\ UNCHANGED <<files, lastRun, view, report>>

\* Consolidate and Save, after the last period.
Save ==
  /\ pool.phase = "pool"
  /\ pool.period = NumPeriods
  /\ Collected(NumPeriods)
  /\ LET written == {p \in Edges : pool.data_store[p] # <<>>}
     IN /\ \E fd \in [written -> UNION {full_df(pool.data_store[p]) : p \in written}] :
             /\ \A p \in written : fd[p] \in full_df(pool.data_store[p])
             /\ files' = [p \in StoredPairs |->
                            IF p \in written THEN RecordsFile(fd[p]) ELSE files[p]]
        /\ lastRun' = [op |-> "fetch_data", written |-> written, merged |-> {}]
  /\ pool' = [pool EXCEPT !.phase = "saved"]
  /\ UNCHANGED <<view, report>>

InitFetch ==
  /\ files = [p \in StoredPairs |-> Absent]
  /\ lastRun = NoRun
  /\ view = NoView
  /\ report = NoReport
  /\ pool = [phase |-> "pool", period |-> 0,
             futures |-> [k \in Periods |-> [e \in Edges |-> Unsubmitted]],
             data_store |-> [e \in Edges |-> <<>>]]

NextFetch ==
  \/ Submit
  \/ \E e \in Edges : \E outcome \in Outcomes(e) : TaskReturns(e, outcome)
  \/ \E e \in Edges : Collect(e)
  \/ Save

SpecFetch == InitFetch /\ [][NextFetch]_vars

(***************************************************************************)
(* fetch_data, the periods loop.  full_start and full_end are local        *)
(* midnights, counted as day numbers from 2023-01-01 (day 0); months are   *)
(* numbered from January 2023 (month 0).                                   *)
(***************************************************************************)
NumMonths == 3

IsLeap(year) == year % 4 = 0 /\ (year % 100 # 0 \/ year % 400 = 0)

DaysIn(k) ==
  LET month == k % 12
      year == 2023 + (k \div 12)
  IN IF month = 1 THEN (IF IsLeap(year) THEN 29 ELSE 28)
     ELSE IF month \in {3, 5, 8, 10} THEN 30 ELSE 31

\* The day number of the first day of month k.
RECURSIVE FirstOf(_)
FirstOf(k) == IF k = 0 THEN 0 ELSE FirstOf(k - 1) + DaysIn(k - 1)

LastDay == FirstOf(NumMonths)

\* current + pd.offsets.MonthBegin(1): the first day of the month after the
\* month of current, whether or not current is itself a first day.
MonthBegin(current) ==
  FirstOf(Min({k \in 1..(NumMonths + 1) : FirstOf(k) > current}))

\* The end of a period left at the month's begin, without the clip.
period_end_unclipped(next_month, full_end) == next_month

\* period_end: next_month, clipped to full_end.
period_end(next_month, full_end) ==
  IF next_month > full_end THEN full_end ELSE next_month

\* One iteration of "while current < full_end".
PeriodsLoop ==
  /\ pool.phase = "periods"
  /\ pool.current < pool.full_end
  /\ LET next_month == MonthBegin(pool.current)
     IN pool' = [pool EXCEPT
          !.periods = Append(@, <<pool.current, period_end(next_month, pool.full_end)>>),
          !.current = next_month]
  /\ UNCHANGED <<files, lastRun, view, report>>

InitPeriods ==
  /\ files = [p \in StoredPairs |-> Absent]
  /\ lastRun = NoRun
  /\ view = NoView
  /\ report = NoReport
  /\ \E full_start \in 0..LastDay : \E full_end \in 0..LastDay :
       /\ full_start < full_end
       /\ pool = [phase |-> "periods", full_start |-> full_start,
                  full_end |-> full_end, current |-> full_start, periods |-> <<>>]

NextPeriods == PeriodsLoop

\* The loop is sequential code: an iteration that can run does run.
SpecPeriods == InitPeriods /\ [][NextPeriods]_vars /\ WF_vars(NextPeriods)

(***************************************************************************)
(* Claims about the Country Total view.                                    *)
(***************************************************************************)
\* A file that loads: it exists, parses, and holds at least one record.
Loadable(p) == files[p].kind = "records" /\ files[p].recs # <<>>

\* The edges of the topology out of and into a country.
ExportEdges(target) == {e \in Edges : e[1] = target}
ImportEdges(target) == {e \in Edges : e[2] = target}

LoadedSeries(target) ==
  {p \in ExportEdges(target) \cup ImportEdges(target) : Loadable(p)}

Viewed == view.target # "none"

\* C1: the timestamp index of the combined Imports/Exports table is the union
\* of the timestamps of all series loaded for the target: none is dropped,
\* none is added.
C1_IndexIsUnion ==
  Viewed /\ ~view.warning =>
    DOMAIN view.combined = UNION {TsOf(files[p].recs) : p \in LoadedSeries(view.target)}

\* A table built from an import series and an export series that share a
\* timestamp without having the same timestamps, three series in all.
C1_Witness ==
  /\ Viewed /\ ~view.warning
  /\ Cardinality(LoadedSeries(view.target)) >= 3
  /\ \E p \in ImportEdges(view.target) : \E q \in ExportEdges(view.target) :
       /\ Loadable(p) /\ Loadable(q)
       /\ TsOf(files[p].recs) \cap TsOf(files[q].recs) # {}
       /\ TsOf(files[p].recs) # TsOf(files[q].recs)

\* The loaded series of the given edges that have an observation at t.
Contributing(edges, t) == {p \in edges : Loadable(p) /\ t \in TsOf(files[p].recs)}

FlowSum(edges, t) ==
  SumOver(Contributing(edges, t),
          [p \in Contributing(edges, t) |-> FlowColumn(files[p].recs)[t]])

\* C2: every column of the combined table has a value at every timestamp of
\* the index: the sum of the flows of the series that have an observation
\* there, which is exactly 0 (never NaN) where none has, a side without any
\* file included; Net Flow is Exports minus Imports.
C2_ZeroFilledSums ==
  Viewed /\ ~view.warning =>
    \A t \in DOMAIN view.combined :
      /\ view.combined[t].Imports = FlowSum(ImportEdges(view.target), t)
      /\ view.combined[t].Exports = FlowSum(ExportEdges(view.target), t)
      /\ view.combined[t].NetFlow = view.combined[t].Exports - view.combined[t].Imports
      /\ view.combined[t].Imports # NaN /\ view.combined[t].Exports # NaN

\* A table in which both sides have data, one timestamp has two import
\* series and no export series, and another has an export series only.
C2_Witness ==
  /\ Viewed /\ ~view.warning
  /\ \E t \in DOMAIN view.combined :
       /\ Cardinality(Contributing(ImportEdges(view.target), t)) = 2
       /\ Contributing(ExportEdges(view.target), t) = {}
       /\ view.combined[t].Exports = 0
  /\ \E t \in DOMAIN view.combined :
       /\ Contributing(ImportEdges(view.target), t) = {}
       /\ Contributing(ExportEdges(view.target), t) # {}
       /\ view.combined[t].Imports = 0

\* Whether the sum v of pair flows holds the flow w (a power of two).
Includes(v, w) == (v \div w) % 2 = 1

\* C3: Imports of a target holds the stored series X -> target of exactly the
\* countries X that list the target as a neighbor (whether or not the target
\* lists X), and Exports exactly the series target -> N of the neighbors N
\* the target lists; no other stored series goes into either.
C3_AdjacencyReversed ==
  Viewed /\ ~view.warning =>
    \A p \in StoredPairs : Loadable(p) =>
      \A t \in TsOf(files[p].recs) :
        /\ (p[2] = view.target /\ view.target \in Range(neighbors(p[1]))) =>
             t \in DOMAIN view.combined /\ Includes(view.combined[t].Imports, PairFlow(p))
        /\ (p[1] = view.target /\ p[2] \in Range(neighbors(view.target))) =>
             t \in DOMAIN view.combined /\ Includes(view.combined[t].Exports, PairFlow(p))
        /\ (t \in DOMAIN view.combined /\
            ~(p[2] = view.target /\ view.target \in Range(neighbors(p[1])))) =>
             ~Includes(view.combined[t].Imports, PairFlow(p))
        /\ (t \in DOMAIN view.combined /\
            ~(p[1] = view.target /\ p[2] \in Range(neighbors(view.target)))) =>
             ~Includes(view.combined[t].Exports, PairFlow(p))

\* The balance of B holds the series A -> B although B does not list A, and
\* leaves out the stored series B -> A, which is no edge.
C3_Witness ==
  /\ Viewed /\ ~view.warning /\ view.target = "B"
  /\ "A" \notin Range(neighbors("B"))
  /\ Loadable(<<"A", "B">>) /\ Loadable(<<"B", "A">>)
  /\ \E t \in TsOf(files[<<"A", "B">>].recs) \cap TsOf(files[<<"B", "A">>].recs) :
       /\ Includes(view.combined[t].Imports, PairFlow(<<"A", "B">>))
       /\ ~Includes(view.combined[t].Exports, PairFlow(<<"B", "A">>))

\* C4: the view gives the "no data" outcome (warning, empty table, no
\* metrics) exactly when no import edge and no export edge of the target has
\* loadable data; otherwise it gives a table, with its metrics.
C4_NoDataSignal ==
  Viewed =>
    /\ view.warning <=> LoadedSeries(view.target) = {}
    /\ view.warning => DOMAIN view.combined = {} /\ ~view.metrics.computed
    /\ ~view.warning => DOMAIN view.combined # {} /\ view.metrics.computed

\* The warning is given for a country whose only edge file is unreadable,
\* while series of other pairs are stored.
C4_Witness ==
  /\ Viewed /\ view.warning
  /\ \E p \in ExportEdges(view.target) \cup ImportEdges(view.target) :
       files[p].kind # "absent"
  /\ \E q \in StoredPairs : Loadable(q)

(***************************************************************************)
(* Claims about the Missing Data Analysis view.                            *)
(***************************************************************************)
Rows == 1..Len(report.rows)
RowPair(i) == <<report.rows[i].From, report.rows[i].To>>
WindowStart == report.window[1]
WindowEnd == report.window[2]
WindowDays == WindowEnd - WindowStart

\* The observations of pair p within [windowStart, windowEnd].
ObsInWindow(p) ==
  {t \in TsOf(files[p].recs) :
     t >= HoursPerDay * WindowStart /\ t <= HoursPerDay * WindowEnd}

ObsCount(p) == Cardinality(ObsInWindow(p))
ExpectedCount == WindowDays * HoursPerDay

\* C5 as claimed: an existing series with at least one observation in the
\* window is Complete, with nothing missing, if and only if its count is at
\* least 99% of the expected count (count * 100 >= 99 * days * 24), and is
\* Partial otherwise.
C5_CompleteAtLeast99 ==
  \A i \in Rows :
    Loadable(RowPair(i)) /\ ObsCount(RowPair(i)) >= 1 =>
      IF ObsCount(RowPair(i)) * 100 >= 99 * ExpectedCount
      THEN report.rows[i].Status = "Complete" /\ report.rows[i].Missing.kind = "None"
      ELSE report.rows[i].Status = "Partial"

\* C5 amended: in a window of at least one day such a series is Complete,
\* with nothing missing, if and only if its count is more than 99% of the
\* expected count (count * 100 > 99 * days * 24); at exactly 99% and below it
\* is Partial.
C5_CompleteAbove99 ==
  \A i \in Rows :
    Loadable(RowPair(i)) /\ ObsCount(RowPair(i)) >= 1 /\ WindowDays >= 1 =>
      IF ObsCount(RowPair(i)) * 100 > 99 * ExpectedCount
      THEN report.rows[i].Status = "Complete" /\ report.rows[i].Missing.kind = "None"
      ELSE report.rows[i].Status = "Partial"

\* A series audited with exactly 99% of the expected count, found Partial.
C5_Witness ==
  \E i \in Rows :
    /\ Loadable(RowPair(i)) /\ WindowDays >= 1
    /\ ObsCount(RowPair(i)) * 100 = 99 * ExpectedCount
    /\ report.rows[i].Status = "Partial"

\* C6: for every pair and window the status is one of Missing File, No Data
\* in Range, Complete, Partial; it is Missing File whenever the series is not
\* found (no file, or an empty, timestamp-less or unparsable one); it is No
\* Data in Range exactly when the series exists with no observation in the
\* window.
C6_ClassifierTotal ==
  \A i \in Rows :
    /\ report.rows[i].Status \in {"Missing File", "No Data in Range", "Complete", "Partial"}
    /\ ~Loadable(RowPair(i)) => report.rows[i].Status = "Missing File"
    /\ report.rows[i].Status = "No Data in Range" <=>
         Loadable(RowPair(i)) /\ ObsInWindow(RowPair(i)) = {}

\* The days of the window on which pair p has no observation in the window.
DaysWithoutObs(p) ==
  {d \in WindowStart..WindowEnd : ~\E t \in ObsInWindow(p) : Date(t) = d}

\* C7: for a Partial pair the missing days are exactly the days of the window
\* without an observation: listed when there are 1 to 10 of them, given as
\* their count and one example when there are more, and "partial hours
\* missing" when there is none.
C7_MissingDaysExact ==
  \A i \in Rows :
    report.rows[i].Status = "Partial" =>
      LET M == DaysWithoutObs(RowPair(i))
          info == report.rows[i].Missing
      IN IF M = {} THEN info.kind = "Partial hours missing"
         ELSE IF Cardinality(M) <= 10 THEN info.kind = "list" /\ info.days = M
         ELSE info.kind = "count" /\ info.count = Cardinality(M) /\ info.example \in M

\* C12: in a window of at least one day the reported completeness percent
\* is monotone in the data: a series whose observations in the window
\* include those of another is reported with a percent at least as high;
\* and every reported percent lies between 0 and 100 (percents are in
\* tenths, as reported).
C12_CompletenessMonotone ==
  WindowDays >= 1 =>
    /\ \A i \in Rows : \A j \in Rows :
         ObsInWindow(RowPair(i)) \subseteq ObsInWindow(RowPair(j)) =>
           report.rows[i].Completeness <= report.rows[j].Completeness
    /\ \A i \in Rows :
         report.rows[i].Completeness >= 0 /\ report.rows[i].Completeness <= 1000

\* Two series are audited in one window of at least one day, the second
\* holds every observation of the first and more, the first is reported
\* with a lower percent and the second, with more observations than
\* expected hours, at 100.
C12_Witness ==
  /\ WindowDays >= 1
  /\ \E i \in Rows : \E j \in Rows :
       /\ ObsInWindow(RowPair(i)) # {}
       /\ ObsInWindow(RowPair(i)) \subseteq ObsInWindow(RowPair(j))
       /\ ObsInWindow(RowPair(i)) # ObsInWindow(RowPair(j))
       /\ report.rows[i].Completeness > 0
       /\ report.rows[i].Completeness < report.rows[j].Completeness
       /\ ObsCount(RowPair(j)) > ExpectedCount
       /\ report.rows[j].Completeness = 1000

(***************************************************************************)
(* Claims about ingestion.                                                 *)
(***************************************************************************)
WrittenFiles == {p \in StoredPairs : files[p].kind = "records" /\ files[p].recs # <<>>}

\* C8: every series file written by import_csv or fetch_data is sorted
\* ascending by timestamp and holds at most one record per timestamp.
C8_FilesSortedUnique ==
  \A p \in WrittenFiles : IsSorted(files[p].recs) /\ IsUnique(files[p].recs)

\* The records a run meets for one pair, in arrival order.
ArrivedImport(existing, rows, p) ==
  (IF Merges(existing) THEN existing.recs ELSE <<>>) \o Group(dropna(rows), p)

\* recs holds exactly one record for each timestamp of arrived, with the
\* flow of the record of that timestamp that arrived last.
LastWriteWins(recs, arrived) ==
  /\ IsUnique(recs)
  /\ TsOf(recs) = TsOf(arrived)
  /\ \A i \in 1..Len(recs) :
       \E k \in 1..Len(arrived) :
         /\ arrived[k] = recs[i]
         /\ \A j \in 1..Len(arrived) : j > k => arrived[j].timestamp # recs[i].timestamp

\* C9: whenever import_csv or fetch_data meets several records of one pair
\* with the same timestamp, the saved file holds exactly one record for that
\* timestamp, with the flow of the record that arrived last.
C9_LastWriteWins ==
  [][/\ \A batch \in CsvBatches :
          import_csv(batch) =>
            \A p \in GroupedPairs(dropna(batch)) :
              LastWriteWins(files'[p].recs, ArrivedImport(files[p], batch, p))
     /\ \A fetched \in Fetched :
          fetch_data(fetched) =>
            \A p \in lastRun'.written :
              LastWriteWins(files'[p].recs, concat(data_store(fetched, p)))]_vars

\* C10 as claimed: no ingestion run, import_csv or fetch_data, removes a
\* timestamp from any file, and a run leaves the files it does not write
\* unchanged.
C10_NeverLosesData ==
  [][\A p \in StoredPairs :
       /\ TsOf(files[p].recs) \subseteq TsOf(files'[p].recs)
       /\ p \notin lastRun'.written => files'[p] = files[p]]_vars

\* C10 amended: import_csv never removes a timestamp from a file, and every
\* run (import_csv or fetch_data) leaves the files of the pairs it does not
\* write unchanged; fetch_data replaces the file of a pair it saves.
C10_ImportKeepsTimestamps ==
  [][\A p \in StoredPairs :
       /\ lastRun'.op = "import_csv" =>
            TsOf(files[p].recs) \subseteq TsOf(files'[p].recs)
       /\ p \notin lastRun'.written => files'[p] = files[p]]_vars

\* An import has merged new rows into an existing file that now holds an old
\* and a new timestamp, while the file of another pair stayed as it was.
C10_Witness ==
  /\ lastRun.op = "import_csv"
  /\ \E p \in lastRun.merged : Cardinality(TsOf(files[p].recs)) = MaxTs
  /\ \E q \in WrittenFiles : q \notin lastRun.written

(***************************************************************************)
(* Claims about the worker pool of fetch_data.                             *)
(***************************************************************************)
\* The frames returned by the collected tasks of pair p in the periods
\* 1..k, in period order.
RECURSIVE ReturnedFrames(_, _)
ReturnedFrames(p, k) ==
  IF k = 0 THEN <<>>
  ELSE ReturnedFrames(p, k - 1) \o
       (IF /\ pool.futures[k][p].state = "collected"
           /\ pool.futures[k][p].outcome.kind = "frame"
        THEN <<pool.futures[k][p].outcome.df>> ELSE <<>>)

AllTasksCompleted ==
  \A k \in Periods : \A e \in Edges : pool.futures[k][e].state = "collected"

\* The list of every pair holds the frames of that pair's own tasks and
\* nothing else, in period order whatever the order of completion.
OwnResultsOnly ==
  \A p \in Edges : pool.data_store[p] = ReturnedFrames(p, NumPeriods)

\* After the save a pair has a file exactly if one of its tasks returned a
\* frame, and the file is the consolidation of the frames of its successful
\* tasks: it holds exactly their timestamps.
SavedFromOwnTasks ==
  pool.phase = "saved" =>
    \A p \in Edges :
      LET frames == ReturnedFrames(p, NumPeriods)
      IN IF frames = <<>> THEN files[p] = Absent
         ELSE /\ files[p].kind = "records"
              /\ TsOf(files[p].recs) = TsOf(concat(frames))
              /\ files[p].recs \in full_df(frames)

\* C11: for every interleaving and completion order of the pool's tasks, no
\* file is written before every task of every period has completed, each
\* result is added only to its own pair's list, the file saved for a pair
\* holds exactly the timestamps returned by that pair's successful tasks and
\* is determined by those results and not by the order of completion, and a
\* failed task contributes nothing and does not keep the others from being
\* saved.
C11_PoolIsolation ==
  /\ [](OwnResultsOnly /\ SavedFromOwnTasks)
  /\ [][files' # files => AllTasksCompleted]_vars

\* A run is saved in which A -> B failed in the first period and returned
\* two timestamps in the second, C -> B returned a frame in the first period
\* and failed in the second, and both files are written.
C11_Witness ==
  /\ pool.phase = "saved"
  /\ pool.futures[1][<<"A", "B">>].outcome = Raised
  /\ pool.futures[NumPeriods][<<"A", "B">>].outcome = Answer(<<Record(1, 1), Record(2, 1)>>)
  /\ pool.futures[1][<<"C", "B">>].outcome.kind = "frame"
  /\ pool.futures[NumPeriods][<<"C", "B">>].outcome = Raised
  /\ TsOf(files[<<"A", "B">>].recs) = {1, 2}
  /\ TsOf(files[<<"C", "B">>].recs) = {2}

(***************************************************************************)
(* Claims about the periods loop of fetch_data.                            *)
(***************************************************************************)
LoopExited == ~(pool.current < pool.full_end)

\* The periods partition [full_start, full_end): contiguous from full_start
\* to full_end, each non-empty and inside one calendar month.
PeriodsPartition ==
  LET periods == pool.periods
  IN /\ periods # <<>>
     /\ periods[1][1] = pool.full_start
     /\ periods[Len(periods)][2] = pool.full_end
     /\ \A i \in 1..(Len(periods) - 1) : periods[i][2] = periods[i + 1][1]
     /\ \A i \in 1..Len(periods) :
          /\ periods[i][1] < periods[i][2]
          /\ \E k \in 0..NumMonths :
               FirstOf(k) <= periods[i][1] /\ periods[i][2] <= FirstOf(k + 1)

\* C13: for every full_start < full_end the periods loop terminates, and the
\* periods it has built then partition [full_start, full_end): the first
\* starts at full_start, each ends where the next starts, each has
\* start < end within one calendar month, and the last ends at full_end.
C13_PeriodsPartition ==
  /\ <>LoopExited
  /\ [](LoopExited => PeriodsPartition)

\* The loop has ended on a range that starts and ends inside months: a
\* clipped last period after a first partial and a whole month.
C13_Witness ==
  /\ LoopExited
  /\ Len(pool.periods) = NumMonths
  /\ pool.full_start > 0
  /\ pool.full_end < LastDay
  /\ pool.periods[Len(pool.periods)][2] < MonthBegin(pool.periods[Len(pool.periods)][1])
  /\ pool.periods[2] = <<FirstOf(1), FirstOf(2)>>

====
